---- MODULE Spec2Model ----
\* A model of the AMF0 decoder of package amf0 (src/amf0/amf.go): the Parser,
\* its recursive-descent parseValue / parseProperties, the reference table and
\* readBytes.  The recursion is unfolded into an explicit call stack, one
\* action per switch case or loop step; the bytes of the io.Reader are drawn
\* when they are read.
EXTENDS Integers, Sequences, FiniteSets, TLC

\* ---------------------------------------------------------------- markers
Number        == 0
Boolean       == 1
String        == 2
Object        == 3
Movieclip     == 4
Null          == 5
Undefined     == 6
Reference     == 7
ECMAArray     == 8
ObjectEnd     == 9
StrictArray   == 10
Date          == 11
LongString    == 12
Unsupported   == 13
Recordset     == 14
XmlDocument   == 15
TypedObject   == 16
AvmPlusObject == 17

\* ----------------------------------------------------------------- bounds
\* Bytes a reader that ends holds at most, and the bytes an endless reader
\* is followed for.
MaxBytes == 14
\* Value structs alive at once: those the reference table reaches, and those
\* of the Parse call under way or of its result.
MaxNodes == 3
\* Parse calls made on one Parser.
MaxCalls == 2

\* ----------------------------------------------------------------- inputs
\* What a reader can deliver for a read of 1, 2, 4 and 8 bytes, and the bytes
\* a string is made of.
Buf1 == { <<b>> : b \in 0..18 }
BoolBufs == { <<0>>, <<1>>, <<255>> }
Buf2 == { <<0, 0>>, <<0, 1>>, <<1, 0>> }
Buf4 == { <<0, 0, 0, 0>>, <<0, 0, 0, 1>>, <<0, 0, 0, 2>>,
          <<127, 255, 255, 255>>, <<128, 0, 0, 0>>, <<255, 255, 255, 255>> }
Buf8 == { <<0, 0, 0, 0, 0, 0, 0, 0>>, <<64, 9, 30, 184, 81, 235, 133, 31>> }
StrChars == { 97, 98 }

VARIABLES
    reader,      \* p.reader: [endless, eof]; a reader that is not endless ends
                 \* at a read of its choice, and has then ended for good
    references,  \* p.references: pointers (heap indices) of registered values
    bytesRead,   \* p.bytesRead
    heap,        \* the Value structs alive; a *Value is an index into it
    stack,       \* the active parseValue / parseProperties calls, top last
    pc,          \* "idle": no Parse call is active; "parsing": one is
    value,       \* Parse's named result `value` (0 is nil)
    result,      \* what the last Parse call returned, until the next is made
    data,        \* the buffers readBytes returned in the last step that read
    entry        \* the number of this Parse call, and p.bytesRead and
                 \* len(p.references) when it was entered

vars == <<reader, references, bytesRead, heap, stack, pc, value, result, data, entry>>

\* ------------------------------------------------------- encoding/binary
\* binary.BigEndian.Uint16
Uint16(d) == d[1] * 256 + d[2]

\* binary.BigEndian.Uint32, as its two 16-bit halves <<high, low>>
Uint32(d) == << d[1] * 256 + d[2], d[3] * 256 + d[4] >>

\* Uint64 with the bytes taken in little-endian order
Uint64LittleEndian(d) == << d[8] * 256 + d[7], d[6] * 256 + d[5],
                            d[4] * 256 + d[3], d[2] * 256 + d[1] >>

\* binary.BigEndian.Uint64, as its four 16-bit quarters, highest first; a
\* float64 is represented by its IEEE-754 bits (math.Float64frombits)
Uint64(d) == << d[1] * 256 + d[2], d[3] * 256 + d[4],
                d[5] * 256 + d[6], d[7] * 256 + d[8] >>

\* the conversion int32(u) of a uint32
Int32(u) == IF u[1] < 32768 THEN u[1] * 65536 + u[2]
            ELSE (u[1] - 65536) * 65536 + u[2]

\* i < int(u) for a uint32 u and a small non-negative i (int is 64 bits wide)
IntLess(i, u) == u[1] > 0 \/ i < u[2]

\* string(data) of n bytes c
StringOf(n, c) == [k \in 1..n |-> c]

\* ------------------------------------------------------------------ Value
NilValue    == [kind |-> "nil", bool |-> FALSE, float |-> <<>>, str |-> <<>>, list |-> <<>>]
BoolValue(b)  == [NilValue EXCEPT !.kind = "bool", !.bool = b]
FloatValue(f) == [NilValue EXCEPT !.kind = "float", !.float = f]
StrValue(s)   == [NilValue EXCEPT !.kind = "string", !.str = s]
ListValue(l)  == [NilValue EXCEPT !.kind = "values", !.list = l]

\* &Value{Marker: marker, Name: name}
NewValue(marker, name) == [Marker |-> marker, Name |-> name, Value |-> NilValue]

\* ------------------------------------------------------------- call stack
Frame(fn, at, v) ==
    [fn |-> fn, pc |-> at, value |-> v, child |-> 0, arrayMarker |-> 0,
     length |-> <<0, 0>>, i |-> 0, list |-> <<>>]

Top == stack[Len(stack)]
Pop(s) == SubSeq(s, 1, Len(s) - 1)

\* parseValue(value) has been entered and switches on value.Marker
AtSwitch(markers) ==
    /\ pc = "parsing"
    /\ stack # <<>>
    /\ Top.fn = "parseValue"
    /\ Top.pc = "switch"
    /\ heap[Top.value].Marker \in markers

\* ------------------------------------------------------------- readBytes
Min(a, b) == IF a < b THEN a ELSE b

\* The outcomes of readBytes(p.reader, length) after `done` bytes were read
\* earlier in the same step: the bytes io.ReadFull delivered (added to
\* p.bytesRead before the error is looked at) and its error.  make panics on
\* a negative length; io.ReadFull of an empty buffer succeeds even at the end
\* of the stream; a reader that ends delivers k < length bytes and the error
\* io.EOF (k = 0) or io.ErrUnexpectedEOF.  No reader is followed beyond
\* MaxBytes bytes.
readBytes(done, length) ==
    LET room == MaxBytes - bytesRead - done IN
    IF length < 0 THEN { [n |-> 0, err |-> "makeslice: len out of range"] }
    ELSE IF length = 0 THEN { [n |-> 0, err |-> "nil"] }
    ELSE IF reader.eof THEN { [n |-> 0, err |-> "EOF"] }
    ELSE { [n |-> length, err |-> "nil"] : x \in { y \in {0} : length <= room } }
         \cup
         IF reader.endless THEN {}
         ELSE { [n |-> k, err |-> IF k = 0 THEN "EOF" ELSE "unexpected EOF"] :
                    k \in 0..Min(length - 1, room) }

\* the reader after a read ended with err
Consume(err) ==
    IF err \in {"EOF", "unexpected EOF"} THEN [reader EXCEPT !.eof = TRUE] ELSE reader

\* int32(binary.BigEndian.Uint16(data)) or int32(binary.BigEndian.Uint32(data))
NameLength(marker, lenbuf) ==
    IF marker = String THEN Uint16(lenbuf) ELSE Int32(Uint32(lenbuf))

\* the length fields a reader is asked for by readString(marker)
LenBufs(marker) == IF marker = String THEN Buf2 ELSE Buf4

\* The outcomes of readString(marker) after `done` bytes were read earlier in
\* the same step, over the length fields and the strings the reader can
\* deliver: bytes read, error, string, its length and the buffers readBytes
\* returned.
readString(done, marker) ==
    LET w == IF marker = String THEN 2 ELSE 4
    IN  { [n |-> r1.n, err |-> r1.err, str |-> <<>>, len |-> 0, bufs |-> <<>>] :
              r1 \in { r \in readBytes(done, w) : r.err # "nil" } }
        \cup
        UNION { LET nameLength == NameLength(marker, lenbuf) IN
                UNION { IF r2.err # "nil"
                        THEN { [n |-> w + r2.n, err |-> r2.err, str |-> <<>>,
                                len |-> nameLength, bufs |-> <<lenbuf>>] }
                        ELSE { [n |-> w + nameLength, err |-> "nil",
                                str |-> StringOf(nameLength, c), len |-> nameLength,
                                bufs |-> <<lenbuf, StringOf(nameLength, c)>>] :
                                   c \in StrChars } :
                            r2 \in readBytes(done + w, nameLength) } :
                    lenbuf \in { l \in LenBufs(marker) :
                                     \E r \in readBytes(done, w) : r.err = "nil" } }

\* ------------------------------------------------------------ Parse, ends
\* A panic after n bytes were read in this step: it unwinds to the deferred
\* function of Parse, which sets err; the named results value and bytesRead
\* keep what they hold.
Panic(err, n, bufs) ==
    /\ bytesRead' = bytesRead + n
    /\ reader' = Consume(err)
    /\ data' = bufs
    /\ stack' = <<>>
    /\ pc' = "idle"
    /\ result' = [value |-> value, bytesRead |-> 0, err |-> err]
    /\ UNCHANGED <<references, heap, value, entry>>

\* The step goes on inside the Parse call after reading n bytes.
Continue(n, bufs, h, s, refs) ==
    /\ bytesRead' = bytesRead + n
    /\ UNCHANGED reader
    /\ data' = bufs
    /\ heap' = h
    /\ stack' = s
    /\ references' = refs
    /\ UNCHANGED <<pc, value, result, entry>>

\* ------------------------------------------------------------------- heap
Range(f) == { f[x] : x \in DOMAIN f }

\* the Value structs reached from those of S through the lists of their Value
RECURSIVE Reachable(_, _)
Reachable(h, S) ==
    LET T == S \cup UNION { Range(h[v].Value.list) : v \in S }
    IN  IF T = S THEN S ELSE Reachable(h, T)

\* What is left of the heap once the caller has dropped the last result: the
\* Value structs the reference table reaches, renumbered in their order.
Collect(h, refs) ==
    LET live == Reachable(h, Range(refs))
        new(v) == Cardinality({ w \in live : w <= v })
        old(k) == CHOOSE v \in live : new(v) = k
    IN  [heap |-> [k \in 1..Cardinality(live) |->
                      [h[old(k)] EXCEPT !.Value.list = [x \in DOMAIN @ |-> new(@[x])]]],
         references |-> [x \in DOMAIN refs |-> new(refs[x])]]

NoResult == [value |-> 0, bytesRead |-> 0, err |-> "none"]

Init ==
    /\ reader \in [endless : BOOLEAN, eof : {FALSE}]
    /\ references = <<>>
    /\ bytesRead = 0
    /\ heap = <<>>
    /\ stack = <<>>
    /\ pc = "idle"
    /\ value = 0
    /\ result = NoResult
    /\ data = <<>>
    /\ entry = [call |-> 0, bytesRead |-> 0, references |-> 0]

\* Parse, up to its call of parseValue
Parse ==
    /\ pc = "idle"
    /\ entry.call < MaxCalls
    /\ \E r \in readBytes(0, 1) :
         LET live == Collect(heap, references) IN
         /\ bytesRead' = bytesRead + r.n
         /\ reader' = Consume(r.err)
         /\ entry' = [call |-> entry.call + 1, bytesRead |-> bytesRead,
                      references |-> Len(references)]
         /\ references' = live.references
         /\ IF r.err # "nil"
            THEN /\ data' = <<>>
                 /\ heap' = live.heap
                 /\ value' = 0
                 /\ result' = [value |-> 0, bytesRead |-> 0, err |-> r.err]
                 /\ UNCHANGED <<stack, pc>>
            ELSE /\ Len(live.heap) < MaxNodes
                 /\ \E d \in Buf1 :
                      /\ data' = <<d>>
                      /\ heap' = Append(live.heap, NewValue(d[1], <<>>))
                 /\ value' = Len(live.heap) + 1
                 /\ stack' = <<Frame("parseValue", "switch", Len(live.heap) + 1)>>
                 /\ pc' = "parsing"
                 /\ result' = NoResult

\* Parse: return value, p.bytesRead, nil
ParseReturn ==
    /\ pc = "parsing"
    /\ stack = <<>>
    /\ pc' = "idle"
    /\ result' = [value |-> value, bytesRead |-> bytesRead, err |-> "nil"]
    /\ UNCHANGED <<reader, references, bytesRead, heap, stack, value, data, entry>>

\* ------------------------------------------------------------- parseValue
\* parseValue returns to its caller
Return(s) == Pop(s)

\* the caller goes on to call parseProperties
CallProperties(s, at) ==
    Append([s EXCEPT ![Len(s)].pc = at], Frame("parseProperties", "for", 0))

\* case Number
parseValueNumber ==
    /\ AtSwitch({Number})
    /\ \E r \in readBytes(0, 8) :
         IF r.err # "nil" THEN Panic(r.err, r.n, <<>>)
         ELSE \E d \in Buf8 :
              Continue(8, <<d>>,
                       [heap EXCEPT ![Top.value].Value = FloatValue(Uint64(d))],
                       Return(stack), references)

\* case Boolean
parseValueBoolean ==
    /\ AtSwitch({Boolean})
    /\ \E r \in readBytes(0, 1) :
         IF r.err # "nil" THEN Panic(r.err, r.n, <<>>)
         ELSE \E d \in BoolBufs :
              Continue(1, <<d>>,
                       [heap EXCEPT ![Top.value].Value = BoolValue(d[1] # 0)],
                       Return(stack), references)

\* case LongString, XmlDocument, String
parseValueString ==
    /\ AtSwitch({LongString, XmlDocument, String})
    /\ \E r \in readString(0, heap[Top.value].Marker) :
         IF r.err # "nil" THEN Panic(r.err, r.n, r.bufs)
         ELSE Continue(r.n, r.bufs,
                       [heap EXCEPT ![Top.value].Value = StrValue(r.str)],
                       Return(stack), references)

\* case Object, up to its call of parseProperties
parseValueObject ==
    /\ AtSwitch({Object})
    /\ Continue(0, data, heap, CallProperties(stack, "Object"), references)

\* case Null, Undefined
parseValueNull ==
    /\ AtSwitch({Null, Undefined})
    /\ Continue(0, data, [heap EXCEPT ![Top.value].Value = NilValue],
                Return(stack), references)

\* InvalidIndex rejecting the last entry too
InvalidIndexOffByOne(index, n) == index >= n - 1

\* if int(index) > len(p.references)-1
InvalidIndex(index, n) == index > n - 1

\* Resolve without the copy of the marker
ResolveValueOnly(v, ref) == [v EXCEPT !.Value = ref.Value]

\* value.Value = ref.Value; value.Marker = ref.Marker
Resolve(v, ref) == [v EXCEPT !.Value = ref.Value, !.Marker = ref.Marker]

\* case Reference
parseValueReference ==
    /\ AtSwitch({Reference})
    /\ \E r \in readBytes(0, 2) :
         IF r.err # "nil" THEN Panic(r.err, r.n, <<>>)
         ELSE \E d \in Buf2 :
             LET index == Uint16(d) IN
             IF InvalidIndex(index, Len(references))
             THEN Panic("reference index is greater, than the amount of available reference objects",
                        2, <<d>>)
             ELSE Continue(2, <<d>>,
                           [heap EXCEPT ![Top.value] = Resolve(@, heap[references[index + 1]])],
                           Return(stack), references)

\* case ECMAArray, up to its call of parseProperties
parseValueECMAArray ==
    /\ AtSwitch({ECMAArray})
    /\ \E r \in readBytes(0, 4) :
         IF r.err # "nil" THEN Panic(r.err, r.n, <<>>)
         ELSE \E d \in Buf4 :
              Continue(4, <<d>>, heap, CallProperties(stack, "ECMAArray"), references)

\* case StrictArray, up to its loop
parseValueStrictArray ==
    /\ AtSwitch({StrictArray})
    /\ \E r1 \in readBytes(0, 4) :
         IF r1.err # "nil" THEN Panic(r1.err, r1.n, <<>>)
         ELSE \E d \in Buf4, r2 \in readBytes(4, 1) :
             IF r2.err # "nil" THEN Panic(r2.err, 4 + r2.n, <<d>>)
             ELSE \E m \in Buf1 :
                  Continue(5, <<d, m>>, heap,
                           [stack EXCEPT ![Len(stack)].pc = "for",
                                         ![Len(stack)].length = Uint32(d),
                                         ![Len(stack)].arrayMarker = m[1]],
                           references)

\* LoopCondition with <= for <
LoopConditionInclusive(i, length) == IntLess(i - 1, length)

\* for i := 0; i < length; i++
LoopCondition(i, length) == IntLess(i, length)

\* case StrictArray: the loop's test, then either the call of parseValue for
\* the next element or value.Value = values
strictArrayFor ==
    /\ pc = "parsing"
    /\ stack # <<>>
    /\ Top.fn = "parseValue"
    /\ Top.pc = "for"
    /\ IF LoopCondition(Top.i, Top.length)
       THEN /\ Len(heap) < MaxNodes
            /\ Continue(0, data, Append(heap, NewValue(Top.arrayMarker, <<>>)),
                        Append([stack EXCEPT ![Len(stack)].pc = "call",
                                             ![Len(stack)].child = Len(heap) + 1],
                               Frame("parseValue", "switch", Len(heap) + 1)),
                        references)
       ELSE Continue(0, data, [heap EXCEPT ![Top.value].Value = ListValue(Top.list)],
                     Return(stack), references)

\* case StrictArray: values = append(values, arrayValue); i++
strictArrayAppend ==
    /\ pc = "parsing"
    /\ stack # <<>>
    /\ Top.fn = "parseValue"
    /\ Top.pc = "call"
    /\ Continue(0, data, heap,
                [stack EXCEPT ![Len(stack)].pc = "for",
                              ![Len(stack)].list = Append(@, Top.child),
                              ![Len(stack)].i = @ + 1],
                references)

\* case Date
parseValueDate ==
    /\ AtSwitch({Date})
    /\ \E r1 \in readBytes(0, 2) :
         IF r1.err # "nil" THEN Panic(r1.err, r1.n, <<>>)
         ELSE \E z \in Buf2, r2 \in readBytes(2, 8) :
             IF r2.err # "nil" THEN Panic(r2.err, 2 + r2.n, <<z>>)
             ELSE \E d \in Buf8 :
                  Continue(10, <<z, d>>,
                           [heap EXCEPT ![Top.value].Value = FloatValue(Uint64(d))],
                           Return(stack), references)

\* case TypedObject, up to its call of parseProperties
parseValueTypedObject ==
    /\ AtSwitch({TypedObject})
    /\ \E r \in readString(0, String) :
         IF r.err # "nil" THEN Panic(r.err, r.n, r.bufs)
         ELSE Continue(r.n, r.bufs, [heap EXCEPT ![Top.value].Name = r.str],
                       CallProperties(stack, "TypedObject"), references)

\* case AvmPlusObject
parseValueAvmPlusObject ==
    /\ AtSwitch({AvmPlusObject})
    /\ Panic("amf3 is not supported", 0, data)

\* case Unsupported, Recordset, Movieclip
parseValueUnsupported ==
    /\ AtSwitch({Unsupported, Recordset, Movieclip})
    /\ Panic("unsupported type", 0, data)

\* default
parseValueDefault ==
    /\ AtSwitch((0..255) \ (0..17))
    /\ Continue(0, data, heap, Return(stack), references)

\* -------------------------------------------------------- parseProperties
\* IsObjectEnd comparing with the Object marker
IsObjectMarker(b) == b = Object

\* if data[0] == ObjectEnd
IsObjectEnd(b) == b = ObjectEnd

\* Register putting the value in front
RegisterFirst(refs, v) == <<v>> \o refs

\* p.references = append(p.references, value)
Register(refs, v) == Append(refs, v)

\* One turn of the loop of parseProperties: the key, then either the end of
\* the list (parseProperties returns and the Object, ECMAArray or TypedObject
\* case of its caller sets value.Value, registers value and returns) or the
\* property's marker and the call of parseValue for it.
parseProperties ==
    /\ pc = "parsing"
    /\ stack # <<>>
    /\ Top.fn = "parseProperties"
    /\ Top.pc = "for"
    /\ \E r \in readString(0, String) :
         IF r.err # "nil" THEN Panic(r.err, r.n, r.bufs)
         ELSE \E r1 \in readBytes(r.n, 1) :
         IF r1.err # "nil" THEN Panic(r1.err, r.n + r1.n, r.bufs)
         ELSE \E d \in Buf1 :
         LET caller == stack[Len(stack) - 1]
         IN  IF r.len = 0
             THEN IF IsObjectEnd(d[1])
                  THEN Continue(r.n + 1, Append(r.bufs, d),
                                [heap EXCEPT ![caller.value].Value = ListValue(Top.list)],
                                Return(Pop(stack)),
                                Register(references, caller.value))
                  ELSE Panic("i'm stupid and i fucked up", r.n + 1, Append(r.bufs, d))
             ELSE /\ Len(heap) < MaxNodes
                  /\ Continue(r.n + 1, Append(r.bufs, d),
                              Append(heap, NewValue(d[1], r.str)),
                              Append([stack EXCEPT ![Len(stack)].pc = "call",
                                                   ![Len(stack)].child = Len(heap) + 1],
                                     Frame("parseValue", "switch", Len(heap) + 1)),
                              references)

\* properties = append(properties, property)
AppendProperty(properties, property) == Append(properties, property)

\* parseProperties, after parseValue(property) returned
parsePropertiesAppend ==
    /\ pc = "parsing"
    /\ stack # <<>>
    /\ Top.fn = "parseProperties"
    /\ Top.pc = "call"
    /\ Continue(0, data, heap,
                [stack EXCEPT ![Len(stack)].pc = "for",
                              ![Len(stack)].list = AppendProperty(@, Top.child)],
                references)

Next ==
    \/ Parse
    \/ ParseReturn
    \/ parseValueNumber
    \/ parseValueBoolean
    \/ parseValueString
    \/ parseValueObject
    \/ parseValueNull
    \/ parseValueReference
    \/ parseValueECMAArray
    \/ parseValueStrictArray
    \/ strictArrayFor
    \/ strictArrayAppend
    \/ parseValueDate
    \/ parseValueTypedObject
    \/ parseValueAvmPlusObject
    \/ parseValueUnsupported
    \/ parseValueDefault
    \/ parseProperties
    \/ parsePropertiesAppend

Spec == Init /\ [][Next]_vars
\* ================================================================= claims
Containers == {Object, ECMAArray, TypedObject}

\* the last Parse call returned an error / returned without one
Failed == pc = "idle" /\ result.err \notin {"none", "nil"}
Succeeded == pc = "idle" /\ result.err = "nil"

\* a Value that took its Marker and Value from a table entry: it carries a
\* container's marker and was never registered itself
Resolved(v) == heap[v].Marker \in Containers /\ v \notin Range(references)

\* the big-endian reading of 8 bytes, in 16-bit quarters
BigEndian64(d) == << d[1] * 256 + d[2], d[3] * 256 + d[4],
                    d[5] * 256 + d[6], d[7] * 256 + d[8] >>

\* n as an unsigned 32-bit number in 16-bit halves
Halves(n) == << n \div 65536, n % 65536 >>

\* C1: when Parse fails, the byte count it returns is the number of bytes
\* consumed from the stream before the failure (counted over this call, or
\* over the Parser's life).
C1_FailureReportsBytesConsumed ==
    Failed => result.bytesRead \in {bytesRead - entry.bytesRead, bytesRead}

\* C2: the reference table is empty at the start of every Parse call.
C2_TableEmptyAtEveryCall ==
    pc = "parsing" => entry.references = 0

\* C3: no Value of the tree a successful Parse returns carries the Reference
\* marker, and no entry of the reference table does.
C3_NoReferenceMarker ==
    /\ Succeeded =>
          \A v \in Reachable(heap, {result.value}) : heap[v].Marker # Reference
    /\ \A k \in DOMAIN references : heap[references[k]].Marker # Reference

\* C3's case: a successful Parse returned a tree holding a resolved reference.
C3_Witness ==
    /\ Succeeded
    /\ \E v \in Reachable(heap, {result.value}) : Resolved(v)

\* the step in which the StrictArray case of parseValue returns
ArrayReturns ==
    /\ pc = "parsing" /\ pc' = "parsing"
    /\ stack # <<>> /\ Top.fn = "parseValue" /\ Top.pc = "for"
    /\ Len(stack') = Len(stack) - 1

\* C4 as claimed: a StrictArray decoded with count n and shared tag t has n
\* elements, each of tag t.
C4_EveryElementHasDeclaredTag ==
    [][ArrayReturns =>
          LET values == heap'[Top.value].Value.list IN
          /\ Halves(Len(values)) = Top.length
          /\ \A k \in DOMAIN values : heap'[values[k]].Marker = Top.arrayMarker]_vars

\* C4 as amended: a StrictArray decoded with count n and shared tag t has n
\* elements; each has tag t unless t is Reference, and then each has the
\* marker of a table entry (a container's).
C4_ElementsHaveDeclaredOrResolvedTag ==
    [][ArrayReturns =>
          LET values == heap'[Top.value].Value.list IN
          /\ heap'[Top.value].Value.kind = "values"
          /\ Halves(Len(values)) = Top.length
          /\ \A k \in DOMAIN values :
                IF Top.arrayMarker = Reference
                THEN heap'[values[k]].Marker \in Containers
                ELSE heap'[values[k]].Marker = Top.arrayMarker]_vars

\* C4's case: a StrictArray of two Booleans has been decoded.
C4_Witness ==
    \E v \in DOMAIN heap :
        /\ heap[v].Marker = StrictArray
        /\ Len(heap[v].Value.list) = 2
        /\ \A k \in 1..2 : /\ heap[heap[v].Value.list[k]].Marker = Boolean
                            /\ heap[heap[v].Value.list[k]].Value.kind = "bool"

\* C5: when Parse fails, the Value it returns is nil.
C5_FailureReturnsNil ==
    Failed => result.value = 0

\* C6: a Reference whose 2-byte index i was read against a table of n
\* entries fails iff i >= n; otherwise the Value takes Marker and Value of
\* entry i, keeps its own Name, and parseValue returns.
C6_ReferenceResolvesIffInRange ==
    [][(AtSwitch({Reference}) /\ bytesRead' = bytesRead + 2) =>
          LET i == data'[1][1] * 256 + data'[1][2]
              n == Len(references)
              v == Top.value
          IN  /\ (pc' = "idle" /\ result'.err \notin {"none", "nil"}) <=> i >= n
              /\ i < n =>
                    /\ pc' = "parsing"
                    /\ stack' = Pop(stack)
                    /\ heap'[v].Marker = heap[references[i + 1]].Marker
                    /\ heap'[v].Value = heap[references[i + 1]].Value
                    /\ heap'[v].Name = heap[v].Name
                    /\ references' = references]_vars

\* C6's case: a Reference in a named property slot has been resolved to an
\* entry of another name.
C6_Witness ==
    \E v \in DOMAIN heap, k \in DOMAIN references :
        /\ Resolved(v)
        /\ heap[v].Value = heap[references[k]].Value
        /\ heap[v].Marker = heap[references[k]].Marker
        /\ heap[v].Name # <<>>
        /\ heap[v].Name # heap[references[k]].Name

\* the step in which parseProperties returns and its caller registers
ContainerReturns ==
    /\ pc = "parsing" /\ pc' = "parsing"
    /\ stack # <<>> /\ Top.fn = "parseProperties"
    /\ Len(stack') = Len(stack) - 2

\* C7: within a Parse call the table changes only by appending the container
\* whose property list just ended; its entries are finished Object, ECMAArray
\* or TypedObject values, none of them a value still being decoded, and a
\* container nested in another has the lower index.
C7_RegisteredWhenFinished ==
    /\ [](/\ \A f \in Range(stack) : f.value \notin Range(references)
          /\ \A k \in DOMAIN references :
                /\ heap[references[k]].Marker \in Containers
                /\ heap[references[k]].Value.kind = "values"
                /\ \A j \in DOMAIN references :
                      (j # k /\ references[j] \in
                           Reachable(heap, Range(heap[references[k]].Value.list)))
                      => j < k)
    /\ [][pc = "parsing" =>
            IF ContainerReturns
            THEN references' = Append(references, stack[Len(stack) - 1].value)
            ELSE references' = references]_vars

\* C7's case: inside the property list of a container C that is still being
\* decoded, a Reference has been resolved to a container nested in C.
C7_Witness ==
    /\ pc = "parsing"
    /\ stack # <<>>
    /\ Top.fn = "parseProperties"
    /\ Top.pc = "call"
    /\ Resolved(Top.child)
    /\ stack[Len(stack) - 1].value \notin Range(references)
    /\ \E k \in DOMAIN references :
          /\ references[k] \in Range(Top.list)
          /\ heap[Top.child].Value = heap[references[k]].Value

\* the value a successful Parse of a Number returned
NumberReturned == Succeeded /\ heap[result.value].Marker = Number

\* the step in which the Number case reads its 8 bytes for the root value
RootNumberRead ==
    AtSwitch({Number}) /\ Len(stack) = 1 /\ bytesRead' = bytesRead + 8

\* C8 as claimed: Parse of tag 0x00 and 8 bytes succeeds with the Number
\* they spell in big-endian order and returns 9 as its byte count, on the
\* first call and on a later one.
C8_NumberReturnsNine ==
    NumberReturned =>
        /\ heap[result.value].Value = FloatValue(BigEndian64(data[1]))
        /\ result.bytesRead = 9

\* C8 as amended: Parse of tag 0x00 and 8 bytes succeeds with the Number they
\* spell in big-endian order; the byte count it returns is 9 more than the
\* bytes the earlier calls on the Parser read.
C8_NumberReturnsCumulativeCount ==
    /\ [](NumberReturned =>
            /\ heap[result.value].Value = FloatValue(BigEndian64(data[1]))
            /\ result.bytesRead = entry.bytesRead + 9)
    /\ [][RootNumberRead => (pc' = "parsing" /\ stack' = <<>>)]_vars
    /\ [][(pc = "parsing" /\ stack = <<>>) => result'.err = "nil"]_vars

\* C8's case: a second Parse call on the Parser returned a Number.
C8_Witness ==
    NumberReturned /\ entry.call = 2 /\ entry.bytesRead > 0

\* a turn of the loop of parseProperties in which the key and the byte after
\* it were read
KeyRead ==
    /\ pc = "parsing"
    /\ stack # <<>> /\ Top.fn = "parseProperties" /\ Top.pc = "for"
    /\ Len(data') = 3

LongStringLengthRead ==
    /\ AtSwitch({LongString, XmlDocument})
    /\ Len(data') >= 1
    /\ reader.endless \/ result'.err \notin {"EOF", "unexpected EOF"}

\* C10: the 4-byte length L of a LongString or XmlDocument is unsigned: with
\* L bytes in the stream, L bytes are read and the string has L bytes.
C10_LongStringLengthUnsigned ==
    [][LongStringLengthRead =>
          /\ pc' = "parsing"
          /\ Halves(bytesRead' - bytesRead - 4) = Uint32(data'[1])
          /\ Halves(Len(heap'[Top.value].Value.str)) = Uint32(data'[1])]_vars
====
